---- MODULE Spec2Model ----
(***************************************************************************)
(* A model of cgl_pixel_utils.py: the integer range filler, the 3x3        *)
(* determinant, the UV <-> pixel mapping, the generalised Bresenham line   *)
(* rasteriser and the triangle outline / scan-fill rasterisers.            *)
(*                                                                         *)
(* Every function of the module is pure.  The state machine below draws    *)
(* the arguments of a call in Init and applies one function per step; the  *)
(* outcome of a call is a record [exc, val]: exc is "None" when the call   *)
(* returns val, else the name of the Python exception raised.              *)
(*                                                                         *)
(* Points (Python tuples) are TLA+ tuples <<x, y>>, so Python's p[0], p[1] *)
(* are p[1], p[2] here; Python lists are sequences, index i becomes i+1.   *)
(* Python floats are modelled by exact rationals <<n, d>> with d > 0.      *)
(***************************************************************************)
EXTENDS Integers, Sequences, FiniteSets

VARIABLES pc, args, ret

vars == <<pc, args, ret>>

(***************************************************************************)
(* Bounds of the explored inputs.                                          *)
(***************************************************************************)
\* point coordinates are drawn from 0..MaxCoord
MaxCoord == 4
\* begin / end of cgl_fill_int_range are drawn from -MaxRange..MaxRange
MaxRange == 5
\* x, y, w, h of the UV mapping are drawn from -1..MaxDim
MaxDim == 4

Points == (0..MaxCoord) \X (0..MaxCoord)

\* UV values handed to cgl_get_pixel_from_uv: below, inside and above 0.0 - 1.0
UVSamples == {<<0 - 1, 2>>, <<1, 4>>, <<1, 2>>, <<3, 2>>}

(***************************************************************************)
(* Python builtins used by the module.                                     *)
(***************************************************************************)
abs(a) == IF a < 0 THEN 0 - a ELSE a

min(a, b) == IF b < a THEN b ELSE a

max(a, b) == IF b > a THEN b ELSE a

\* list(range(start, stop, step)), step # 0
range(start, stop, step) ==
    LET n == IF step > 0
             THEN (IF stop > start THEN (stop - start + step - 1) \div step ELSE 0)
             ELSE (IF start > stop THEN (start - stop - step - 1) \div (0 - step) ELSE 0)
    IN  [k \in 1..n |-> start + (k - 1) * step]

\* s[1:]
slice_from_1(s) == IF Len(s) = 0 THEN << >> ELSE Tail(s)

\* s[:-1]
slice_to_last(s) == IF Len(s) = 0 THEN << >> ELSE SubSeq(s, 1, Len(s) - 1)

\* list(zip(x_vals, y_vals))
zip(x_vals, y_vals) ==
    [k \in 1..min(Len(x_vals), Len(y_vals)) |-> <<x_vals[k], y_vals[k]>>]

\* s.index(v): the position (1-based here) of the first occurrence of v in s,
\* 0 when v does not occur (Python raises ValueError)
index(s, v) ==
    IF \E k \in 1..Len(s) : s[k] = v
    THEN CHOOSE k \in 1..Len(s) : s[k] = v /\ \A j \in 1..(k - 1) : s[j] # v
    ELSE 0

Returned(v) == [exc |-> "None", val |-> v]

Raised(e) == [exc |-> e, val |-> << >>]

(***************************************************************************)
(* cgl_fill_int_range                                                      *)
(***************************************************************************)
\* cgl_fill_int_range with the descending stop offset copied from the
\* ascending branch
cgl_fill_int_range_stop(begin, end, ends) ==
    LET endi == IF ends THEN 1 ELSE 0
    IN  IF end > begin
        THEN range(begin + (1 - endi), end + endi, 1)
        ELSE IF end < begin
             THEN range(begin - (1 - endi), end + endi, 0 - 1)
             ELSE << >>

\* cgl_fill_int_range returning the single end point of an empty interval
cgl_fill_int_range_single(begin, end, ends) ==
    LET endi == IF ends THEN 1 ELSE 0
    IN  IF end > begin
        THEN range(begin + (1 - endi), end + endi, 1)
        ELSE IF end < begin
             THEN range(begin - (1 - endi), end - endi, 0 - 1)
             ELSE IF ends THEN <<begin>> ELSE << >>

cgl_fill_int_range(begin, end, ends) ==
    LET endi == IF ends THEN 1 ELSE 0
    IN  IF end > begin
        THEN range(begin + (1 - endi), end + endi, 1)
        ELSE IF end < begin
             THEN range(begin - (1 - endi), end - endi, 0 - 1)
             ELSE << >>

(***************************************************************************)
(* cgl_det                                                                 *)
(***************************************************************************)
cgl_det(p0, p1, p2) ==
    p0[1] * p1[2] + p0[2] * p2[1] + p1[1] * p2[2]
      - p0[1] * p2[2] - p0[2] * p1[1] - p1[2] * p2[1]

(***************************************************************************)
(* Float arithmetic, on exact rationals <<n, d>> with d > 0.               *)
(***************************************************************************)
\* float(i)
to_float(i) == <<i, 1>>

\* a / b: ZeroDivisionError when b is zero
float_div(a, b) ==
    IF b[1] = 0
    THEN Raised("ZeroDivisionError")
    ELSE IF b[1] > 0
         THEN Returned(<<a[1] * b[2], a[2] * b[1]>>)
         ELSE Returned(<<0 - (a[1] * b[2]), 0 - (a[2] * b[1])>>)

float_mul(a, b) == <<a[1] * b[1], a[2] * b[2]>>

float_add(a, b) == <<a[1] * b[2] + b[1] * a[2], a[2] * b[2]>>

float_lt(a, b) == a[1] * b[2] < b[1] * a[2]

float_min(a, b) == IF float_lt(b, a) THEN b ELSE a

float_max(a, b) == IF float_lt(a, b) THEN b ELSE a

\* int(round(a)): to the nearest integer, a tie to the even neighbour
round(a) ==
    LET q == a[1] \div a[2]
        r == a[1] % a[2]
    IN  IF 2 * r < a[2] THEN q
        ELSE IF 2 * r > a[2] THEN q + 1
        ELSE IF q % 2 = 0 THEN q ELSE q + 1

(***************************************************************************)
(* cgl_get_pixel_from_uv                                                   *)
(***************************************************************************)
\* the clamp of a UV value to 0.0 - 1.0
clamp_uv(u) == float_max(float_min(u, <<1, 1>>), <<0, 1>>)

\* uv_to_px scaling by the pixel count instead of the last pixel index
uv_to_px_count(u, n) == round(float_mul(u, to_float(n)))

\* the pixel coordinate of a clamped UV value on an axis of n pixels
uv_to_px(u, n) == round(float_mul(u, to_float(n - 1)))

cgl_get_pixel_from_uv(u, v, w, h) ==
    Returned(<<uv_to_px(clamp_uv(u), w), uv_to_px(clamp_uv(v), h)>>)

(***************************************************************************)
(* cgl_get_pixel_uv                                                        *)
(***************************************************************************)
\* the UV value of the centre of pixel x, given the UV step of one pixel
px_center(x, step) ==
    float_add(float_mul(to_float(x), step), float_mul(step, <<1, 2>>))

\* cgl_get_pixel_uv taking the V step from the width as well
cgl_get_pixel_uv_wstep(x, y, w, h) ==
    LET px_u_step == float_div(<<1, 1>>, to_float(w))
        px_v_step == float_div(<<1, 1>>, to_float(w))
        xc == max(min(x, w - 1), 0)
        yc == max(min(y, h - 1), 0)
    IN  IF px_u_step.exc # "None" THEN px_u_step
        ELSE IF px_v_step.exc # "None" THEN px_v_step
        ELSE Returned(<<px_center(xc, px_u_step.val), px_center(yc, px_v_step.val)>>)

cgl_get_pixel_uv(x, y, w, h) ==
    LET px_u_step == float_div(<<1, 1>>, to_float(w))
        px_v_step == float_div(<<1, 1>>, to_float(h))
        xc == max(min(x, w - 1), 0)
        yc == max(min(y, h - 1), 0)
    IN  IF px_u_step.exc # "None" THEN px_u_step
        ELSE IF px_v_step.exc # "None" THEN px_v_step
        ELSE Returned(<<px_center(xc, px_u_step.val), px_center(yc, px_v_step.val)>>)

(***************************************************************************)
(* cgl_line_raster_pixels                                                  *)
(***************************************************************************)
\* main iteration axis: 0 is X, 1 is Y
main_axis(d) == IF abs(d[1]) > abs(d[2]) THEN 0 ELSE 1

\* sec_inc that never steps backwards
sec_inc_positive(d, mx) == 1

\* direction of the secondary increment
sec_inc(d, mx) == IF d[(1 - mx) + 1] >= 0 THEN 1 ELSE 0 - 1

\* init_di without the half step of the main axis
init_di_full(d, mx) == 2 * d[(1 - mx) + 1]

\* initial derivation, from the absolute deltas
init_di(d, mx) == (2 * d[(1 - mx) + 1]) - d[mx + 1]

\* main_range that stops before the end point
main_range_open(ln, mx) ==
    IF ln[1][mx + 1] < ln[2][mx + 1]
    THEN range(ln[1][mx + 1], ln[2][mx + 1], 1)
    ELSE range(ln[1][mx + 1], ln[2][mx + 1], 0 - 1)

\* the main axis value range, both end points included
main_range(ln, mx) ==
    IF ln[1][mx + 1] < ln[2][mx + 1]
    THEN range(ln[1][mx + 1], ln[2][mx + 1] + 1, 1)
    ELSE range(ln[1][mx + 1], ln[2][mx + 1] - 1, 0 - 1)

RECURSIVE line_loop(_, _, _, _, _, _, _, _)
line_loop(mrange, k, mx, inc, d, di, sec, line_px) ==
    IF k > Len(mrange)
    THEN line_px
    ELSE LET m    == mrange[k]
             lnpx == << <<m, sec>>, <<sec, m>> >>
             sec1 == IF di > 0 THEN sec + inc ELSE sec
             di1  == IF di > 0 THEN di - (2 * d[mx + 1]) ELSE di
             di2  == di1 + (2 * d[(1 - mx) + 1])
         IN  line_loop(mrange, k + 1, mx, inc, d, di2, sec1,
                       Append(line_px, lnpx[mx + 1]))

cgl_line_raster_pixels(p0, p1) ==
    LET ln  == << <<p0[1], p0[2]>>, <<p1[1], p1[2]>> >>
        d0  == <<ln[2][1] - ln[1][1], ln[2][2] - ln[1][2]>>
        mx  == main_axis(d0)
        inc == sec_inc(d0, mx)
        d   == <<abs(d0[1]), abs(d0[2])>>
        di  == init_di(d, mx)
        sec == ln[1][(1 - mx) + 1]
    IN  line_loop(main_range(ln, mx), 1, mx, inc, d, di, sec, << >>)

(***************************************************************************)
(* cgl_get_triangle_lines_raster_pixels                                    *)
(***************************************************************************)
\* the end point of edge i (0-based) of the contour
next_point(i) == ((i + 1) % 3) + 1

\* edge_pixels that keeps the first pixel of the edge
edge_pixels_full(points, i) ==
    cgl_line_raster_pixels(points[i + 1], points[next_point(i)])

\* the pixels edge i contributes to the contour
edge_pixels(points, i) ==
    slice_from_1(cgl_line_raster_pixels(points[i + 1], points[next_point(i)]))

RECURSIVE outline_loop(_, _, _)
outline_loop(points, i, tri_px) ==
    IF i >= 3
    THEN tri_px
    ELSE outline_loop(points, i + 1, tri_px \o edge_pixels(points, i))

cgl_get_triangle_lines_raster_pixels(p0, p1, p2) ==
    outline_loop(<<p0, p1, p2>>, 0, << >>)

(***************************************************************************)
(* cgl_get_triangle_raster_pixels                                          *)
(***************************************************************************)
\* insertion of p behind every element of the sorted s whose Y is <= p's Y
insert_y(s, p) ==
    LET k == Cardinality({j \in 1..Len(s) : s[j][2] <= p[2]})
    IN  SubSeq(s, 1, k) \o <<p>> \o SubSeq(s, k + 1, Len(s))

\* sorted(points, key=lambda x: x[1]): a stable sort by ascending Y
RECURSIVE sort_prefix(_, _)
sort_prefix(points, n) ==
    IF n = 0 THEN << >> ELSE insert_y(sort_prefix(points, n - 1), points[n])

sorted_y(points) == sort_prefix(points, Len(points))

\* list(zip(*sec_line))[1]: the Y values of a line
y_column(line) == [k \in 1..Len(line) |-> line[k][2]]

\* sec_line comparing against the first Y of line_b instead of the last
sec_line_first(new_y_val, line_b, line_c) ==
    IF new_y_val <= line_b[1][2] THEN line_b ELSE line_c

\* the short edge searched for row new_y_val
sec_line(new_y_val, line_b, line_c) ==
    IF new_y_val <= line_b[Len(line_b)][2] THEN line_b ELSE line_c

\* the span of one row; cgl_fill_int_range is called with its default ends=True
row_x_vals(xa, xs) == cgl_fill_int_range(xa, xs, TRUE)

RECURSIVE fill_loop(_, _, _, _, _, _)
fill_loop(line_a, line_b, line_c, i, y_val, tri_fill) ==
    IF i > Len(line_a) - 1
    THEN Returned(tri_fill)
    ELSE LET new_y_val == line_a[i][2]
         IN  IF new_y_val # y_val
             THEN LET sl        == sec_line(new_y_val, line_b, line_c)
                      sec_index == index(y_column(sl), new_y_val)
                  IN  IF sec_index = 0
                      THEN Raised("ValueError")
                      ELSE LET x_vals == row_x_vals(line_a[i][1], sl[sec_index][1])
                               y_vals == [k \in 1..Len(x_vals) |-> new_y_val]
                           IN  fill_loop(line_a, line_b, line_c, i + 1, new_y_val,
                                         tri_fill \o zip(x_vals, y_vals))
             ELSE fill_loop(line_a, line_b, line_c, i + 1, y_val, tri_fill)

cgl_get_triangle_raster_pixels(p0, p1, p2, lines) ==
    LET points == <<p0, p1, p2>>
        sy     == sorted_y(points)
        line_a == cgl_line_raster_pixels(sy[1], sy[3])
        line_b == cgl_line_raster_pixels(sy[1], sy[2])
        line_c == cgl_line_raster_pixels(sy[2], sy[3])
        fill   == fill_loop(line_a, line_b, line_c, 2, line_a[1][2], << >>)
    IN  IF fill.exc # "None"
        THEN fill
        ELSE IF lines
             THEN Returned(fill.val \o slice_to_last(line_a)
                             \o slice_from_1(line_b) \o slice_from_1(line_c))
             ELSE Returned(fill.val)

(***************************************************************************)
(* The calls.                                                              *)
(***************************************************************************)
InitRaster ==
    /\ pc = "call_raster"
    /\ \E p0 \in Points, p1 \in Points, p2 \in Points :
          args = [p0 |-> p0, p1 |-> p1, p2 |-> p2, lines |-> TRUE]
    /\ ret = Returned(<< >>)

InitRange ==
    /\ pc = "call_range"
    /\ \E begin \in (0 - MaxRange)..MaxRange, end \in (0 - MaxRange)..MaxRange :
          args = [begin |-> begin, end |-> end, ends |-> TRUE]
    /\ ret = Returned(<< >>)

InitUV ==
    /\ pc = "call_uv"
    /\ \E x \in (0 - 1)..MaxDim, y \in (0 - 1)..MaxDim,
          w \in (0 - 1)..MaxDim, h \in (0 - 1)..MaxDim :
          args = [x |-> x, y |-> y, w |-> w, h |-> h]
    /\ ret = Returned(<< >>)

Init == InitRaster \/ InitRange \/ InitUV

LineRasterPixels ==
    /\ pc = "call_raster"
    /\ pc' = "cgl_line_raster_pixels"
    /\ ret' = Returned(cgl_line_raster_pixels(args.p0, args.p1))
    /\ UNCHANGED args

TriangleLinesRasterPixels ==
    /\ pc = "call_raster"
    /\ pc' = "cgl_get_triangle_lines_raster_pixels"
    /\ ret' = Returned(cgl_get_triangle_lines_raster_pixels(args.p0, args.p1, args.p2))
    /\ UNCHANGED args

TriangleRasterPixels ==
    /\ pc = "call_raster"
    /\ \E lines \in BOOLEAN :
          /\ args' = [args EXCEPT !.lines = lines]
          /\ ret' = cgl_get_triangle_raster_pixels(args.p0, args.p1, args.p2, lines)
    /\ pc' = "cgl_get_triangle_raster_pixels"

FillIntRange ==
    /\ pc = "call_range"
    /\ \E ends \in BOOLEAN :
          /\ args' = [args EXCEPT !.ends = ends]
          /\ ret' = Returned(cgl_fill_int_range(args.begin, args.end, ends))
    /\ pc' = "cgl_fill_int_range"

GetPixelUV ==
    /\ pc = "call_uv"
    /\ pc' = "cgl_get_pixel_uv"
    /\ ret' = cgl_get_pixel_uv(args.x, args.y, args.w, args.h)
    /\ UNCHANGED args

\* a call with UV values of the caller's own
GetPixelFromUV ==
    /\ pc = "call_uv"
    /\ \E u \in UVSamples, v \in UVSamples :
          /\ args' = [w |-> args.w, h |-> args.h, u |-> u, v |-> v]
          /\ ret' = cgl_get_pixel_from_uv(u, v, args.w, args.h)
    /\ pc' = "cgl_get_pixel_from_uv"

\* the UV values cgl_get_pixel_uv returned, mapped back with the same w and h
RoundTrip ==
    /\ pc = "cgl_get_pixel_uv"
    /\ ret.exc = "None"
    /\ pc' = "round_trip"
    /\ ret' = cgl_get_pixel_from_uv(ret.val[1], ret.val[2], args.w, args.h)
    /\ UNCHANGED args

Next ==
    \/ LineRasterPixels
    \/ TriangleLinesRasterPixels
    \/ TriangleRasterPixels
    \/ FillIntRange
    \/ GetPixelUV
    \/ GetPixelFromUV
    \/ RoundTrip

Spec == Init /\ [][Next]_vars
(***************************************************************************)
(* Properties.                                                             *)
(***************************************************************************)
SetOf(s) == {s[k] : k \in 1..Len(s)}

RECURSIVE Gcd(_, _)
Gcd(a, b) == IF b = 0 THEN a ELSE Gcd(b, a % b)

\* every pixel of the sequence px lies in the closed bounding box of pts
InBox(px, pts) ==
    \A k \in 1..Len(px) :
        /\ \E p \in pts : p[1] <= px[k][1]
        /\ \E p \in pts : p[1] >= px[k][1]
        /\ \E p \in pts : p[2] <= px[k][2]
        /\ \E p \in pts : p[2] >= px[k][2]

\* C1: cgl_line_raster_pixels(p0, p1) returns max(|dx|, |dy|) + 1 pixels, the
\* first is p0, the last is p1, consecutive pixels differ by at most 1 in x
\* and in y, and p0 = p1 yields the one pixel p0.
LineContract ==
    pc = "cgl_line_raster_pixels" =>
        LET p0 == args.p0
            p1 == args.p1
            l  == ret.val
            dx == IF p1[1] >= p0[1] THEN p1[1] - p0[1] ELSE p0[1] - p1[1]
            dy == IF p1[2] >= p0[2] THEN p1[2] - p0[2] ELSE p0[2] - p1[2]
        IN  /\ ret.exc = "None"
            /\ Len(l) = (IF dx >= dy THEN dx ELSE dy) + 1
            /\ l[1] = p0
            /\ l[Len(l)] = p1
            /\ \A k \in 1..(Len(l) - 1) :
                  /\ l[k + 1][1] - l[k][1] \in {0 - 1, 0, 1}
                  /\ l[k + 1][2] - l[k][2] \in {0 - 1, 0, 1}
            /\ (p0 = p1 => l = <<p0>>)

LineContractWitness ==
    /\ pc = "cgl_line_raster_pixels"
    /\ args.p0 = <<4, 1>>
    /\ args.p1 = <<0, 3>>
    /\ ret.val = << <<4, 1>>, <<3, 1>>, <<2, 2>>, <<1, 2>>, <<0, 3>> >>

\* C2 as stated: the contour is the first edge in full, then the second and
\* the third edge without their first pixel.
OutlineKeepsFirstEdge ==
    pc = "cgl_get_triangle_lines_raster_pixels" =>
        ret.val = cgl_line_raster_pixels(args.p0, args.p1)
                    \o Tail(cgl_line_raster_pixels(args.p1, args.p2))
                    \o Tail(cgl_line_raster_pixels(args.p2, args.p0))

\* C2 amended: the contour is each of the three edges p0->p1, p1->p2, p2->p0
\* without its first pixel, in that order; so it has as many pixels as the
\* three edges have steps, and when it is not empty it ends with p0.
OutlineDropsEveryFirstPixel ==
    pc = "cgl_get_triangle_lines_raster_pixels" =>
        LET e01 == cgl_line_raster_pixels(args.p0, args.p1)
            e12 == cgl_line_raster_pixels(args.p1, args.p2)
            e20 == cgl_line_raster_pixels(args.p2, args.p0)
            o   == ret.val
        IN  /\ ret.exc = "None"
            /\ o = Tail(e01) \o Tail(e12) \o Tail(e20)
            /\ Len(o) = Len(e01) + Len(e12) + Len(e20) - 3
            /\ (Len(o) > 0 => o[Len(o)] = args.p0)

OutlineWitness ==
    /\ pc = "cgl_get_triangle_lines_raster_pixels"
    /\ args.p0 = <<0, 0>>
    /\ args.p1 = <<4, 0>>
    /\ args.p2 = <<0, 4>>
    /\ Len(ret.val) = 12
    /\ ret.val[1] = <<1, 0>>
    /\ ret.val[12] = <<0, 0>>

\* C3 as stated: without the contour, every returned pixel lies strictly
\* between the long edge pixel and the matched short edge pixel of its row,
\* and row y = 1 of (0,0), (4,0), (0,4) is exactly x = 1 and x = 2.
FillExcludesEdgePixels ==
    (pc = "cgl_get_triangle_raster_pixels" /\ ~args.lines /\ ret.exc = "None") =>
        LET sy     == sorted_y(<<args.p0, args.p1, args.p2>>)
            line_a == cgl_line_raster_pixels(sy[1], sy[3])
            line_b == cgl_line_raster_pixels(sy[1], sy[2])
            line_c == cgl_line_raster_pixels(sy[2], sy[3])
        IN  /\ \A k \in 1..Len(ret.val) :
                  LET x  == ret.val[k][1]
                      y  == ret.val[k][2]
                      sl == sec_line(y, line_b, line_c)
                      xa == line_a[index(y_column(line_a), y)][1]
                      xs == sl[index(y_column(sl), y)][1]
                  IN  \/ (xa < x /\ x < xs)
                      \/ (xs < x /\ x < xa)
            /\ (args.p0 = <<0, 0>> /\ args.p1 = <<4, 0>> /\ args.p2 = <<0, 4>>)
                  => {q[1] : q \in {r \in SetOf(ret.val) : r[2] = 1}} = {1, 2}

\* C4: every pixel a rasteriser returns lies in the closed bounding box of
\* the points it was given: the two end points of a line, the three vertices
\* of a contour or of a filled triangle (with or without the contour).
PixelsInBoundingBox ==
    /\ pc = "cgl_line_raster_pixels"
          => InBox(ret.val, {args.p0, args.p1})
    /\ pc = "cgl_get_triangle_lines_raster_pixels"
          => InBox(ret.val, {args.p0, args.p1, args.p2})
    /\ (pc = "cgl_get_triangle_raster_pixels" /\ ret.exc = "None")
          => InBox(ret.val, {args.p0, args.p1, args.p2})

BoundingBoxWitness ==
    /\ pc = "cgl_get_triangle_raster_pixels"
    /\ args.lines
    /\ args.p0 = <<4, 0>>
    /\ args.p1 = <<0, 3>>
    /\ args.p2 = <<1, 1>>
    /\ Len(ret.val) > 8

\* C5 as stated: drawing a segment in either direction selects the same set
\* of pixels.
LineSymmetric ==
    pc = "cgl_line_raster_pixels" =>
        SetOf(ret.val) = SetOf(cgl_line_raster_pixels(args.p1, args.p0))

\* C5 amended: the two directions select the same set of pixels exactly when
\* the minor delta is 0 or (major delta) / gcd(major delta, minor delta) is
\* odd, which includes horizontal, vertical and 45 degree segments; for every
\* other segment the two sets differ.
LineSymmetricIffNoTie ==
    pc = "cgl_line_raster_pixels" =>
        LET p0 == args.p0
            p1 == args.p1
            dx == IF p1[1] >= p0[1] THEN p1[1] - p0[1] ELSE p0[1] - p1[1]
            dy == IF p1[2] >= p0[2] THEN p1[2] - p0[2] ELSE p0[2] - p1[2]
            mn == IF dx <= dy THEN dx ELSE dy
            mj == IF dx <= dy THEN dy ELSE dx
        IN  (SetOf(ret.val) = SetOf(cgl_line_raster_pixels(p1, p0)))
              <=> (mn = 0 \/ (mj \div Gcd(mj, mn)) % 2 = 1)

LineSymmetricWitness ==
    /\ pc = "cgl_line_raster_pixels"
    /\ args.p0 = <<0, 2>>
    /\ args.p1 = <<3, 1>>
    /\ ret.val = << <<0, 2>>, <<1, 2>>, <<2, 1>>, <<3, 1>> >>
    /\ SetOf(ret.val) = SetOf(cgl_line_raster_pixels(args.p1, args.p0))
\* C6: for w, h >= 1 and a pixel with x in 0..w-1 and y in 0..h-1, mapping
\* the UV values cgl_get_pixel_uv(x, y, w, h) returns back through
\* cgl_get_pixel_from_uv with the same w and h returns exactly (x, y).
RoundTripLaw ==
    (/\ pc = "round_trip"
     /\ args.w >= 1
     /\ args.h >= 1
     /\ args.x \in 0..(args.w - 1)
     /\ args.y \in 0..(args.h - 1))
        => ret = [exc |-> "None", val |-> <<args.x, args.y>>]

RoundTripWitness ==
    /\ pc = "round_trip"
    /\ args.w = 4
    /\ args.h = 3
    /\ args.x = 3
    /\ args.y = 1
    /\ ret.val = <<3, 1>>

\* C7 as stated: a call of either UV conversion with w <= 0 or h <= 0 ends
\* in an error and returns no coordinate value.
UVRejectsNonPositive ==
    (/\ pc \in {"cgl_get_pixel_uv", "cgl_get_pixel_from_uv"}
     /\ (args.w <= 0 \/ args.h <= 0))
        => ret.exc # "None"

\* C7 amended: cgl_get_pixel_uv ends in an error, a ZeroDivisionError, exactly
\* when w = 0 or h = 0, and returns a value for every other w and h, negative
\* ones included; cgl_get_pixel_from_uv returns a value for every w and h.
UVErrorOnlyOnZero ==
    /\ pc = "cgl_get_pixel_uv" =>
          /\ (ret.exc # "None") <=> (args.w = 0 \/ args.h = 0)
          /\ ret.exc \in {"None", "ZeroDivisionError"}
          /\ (ret.exc # "None" => ret.val = << >>)
    /\ pc = "cgl_get_pixel_from_uv" => ret.exc = "None"

UVErrorWitness ==
    /\ pc = "cgl_get_pixel_uv"
    /\ args.w = 3
    /\ args.h = 0
    /\ ret.exc = "ZeroDivisionError"

DegenerateFillEmpty ==
    (/\ pc = "cgl_get_triangle_raster_pixels"
     /\ ~args.lines
     /\ cgl_det(args.p0, args.p1, args.p2) = 0)
        => ret = [exc |-> "None", val |-> << >>]

DegenerateFillWitness ==
    /\ pc = "cgl_get_triangle_raster_pixels"
    /\ ~args.lines
    /\ args.p0 = <<2, 4>>
    /\ args.p1 = <<0, 0>>
    /\ args.p2 = <<1, 2>>
    /\ cgl_det(args.p0, args.p1, args.p2) = 0
    /\ ret = [exc |-> "None", val |-> << >>]

\* C10: for every three vertices the row lookup of the fill succeeds: for
\* each interior sample of line_a whose Y differs from the sample before it,
\* the short edge chosen for that Y (line_b if Y <= the last Y of line_b, else
\* line_c) has a pixel with that Y; the call returns and never raises.
RowLookupNeverFails ==
    pc = "cgl_get_triangle_raster_pixels" =>
        LET sy     == sorted_y(<<args.p0, args.p1, args.p2>>)
            line_a == cgl_line_raster_pixels(sy[1], sy[3])
            line_b == cgl_line_raster_pixels(sy[1], sy[2])
            line_c == cgl_line_raster_pixels(sy[2], sy[3])
        IN  /\ ret.exc = "None"
            /\ \A i \in 2..(Len(line_a) - 1) :
                  line_a[i][2] # line_a[i - 1][2] =>
                      \E q \in SetOf(sec_line(line_a[i][2], line_b, line_c)) :
                          q[2] = line_a[i][2]

RowLookupWitness ==
    /\ pc = "cgl_get_triangle_raster_pixels"
    /\ ~args.lines
    /\ args.p0 = <<0, 0>>
    /\ args.p1 = <<4, 0>>
    /\ args.p2 = <<0, 4>>
    /\ ret.exc = "None"
    /\ Len(ret.val) = 9
====
